---- MODULE Spec2Model ----
(***************************************************************************)
(* The asynchronous chat pipeline of lolly-backend.                        *)
(*                                                                         *)
(* index.js (src/unnamed/part_001) owns a BullMQ Queue 'chat-processing':  *)
(* POST /chat adds a job, GET /status/:jobId reads one back.  worker.js    *)
(* runs a BullMQ Worker on the same queue with concurrency 2; its          *)
(* processor calls the text generator once, then for every returned        *)
(* message runs speech synthesis, ffmpeg, rhubarb, reads the two artifacts *)
(* back and calls job.updateProgress.                                      *)
(*                                                                         *)
(* The queue itself is the bullmq package (v5 semantics): the model states *)
(* what the calls and options written in the source make it do -           *)
(* add / moveToActive / updateProgress / moveToFinished / retry with       *)
(* backoff / stalled-job recovery / getJob / getState.  Each such          *)
(* definition is mapped to the source line that makes the call or sets     *)
(* the option.                                                             *)
(*                                                                         *)
(* Time is counted in milliseconds.                                        *)
(***************************************************************************)
EXTENDS Integers, Sequences, FiniteSets, TLC

(***************************************************************************)
(* Bounds of the model                                                     *)
(***************************************************************************)
\* number of jobs POST /chat may create in one behaviour
MaxJobs == 2
\* number of worker processes (fly scale count)
NumWorkers == 2
\* longest list of messages the text generator returns
MaxSegments == 3
\* the clock runs for MaxTime base delays, and on while a backoff is pending
MaxTime == 0
\* number of jobs where POST /chat and retention are followed
ChatJobs == 3
\* number of jobs where the count of completed records is followed
CapJobs == 101

(***************************************************************************)
(* Program constants                                                       *)
(***************************************************************************)
\* defaultJobOptions.attempts
Attempts == 3
\* defaultJobOptions.backoff.delay (ms)
BackoffDelay == 1000
\* defaultJobOptions.backoff, as written in the source
BackoffOptions == [type |-> "exponential", delay |-> BackoffDelay]
\* Worker option concurrency
Concurrency == 2
\* removeOnComplete.age (s), removeOnComplete.count, removeOnFail.age (s)
RemoveOnCompleteAge == 3600
RemoveOnCompleteCount == 100
RemoveOnFailAge == 24 * 3600
\* bullmq's default Worker option maxStalledCount (the source sets none)
MaxStalledCount == 1

JobIds == 1..MaxJobs
Workers == 1..NumWorkers

VARIABLES
  nextId,          \* the queue's id counter: the id the next added job gets
  state,           \* job id -> "none" | "waiting" | "delayed" | "active" |
                   \*           "completed" | "failed" | "removed"
  wait,            \* the wait list, head = next job moved to active
  delayed,         \* the delayed set, ordered by due time
  attemptsMade,    \* job id -> finished attempts (job.attemptsMade)
  attemptsStarted, \* job id -> times moved to active (job.attemptsStarted)
  stalledCounter,  \* job id -> times recovered from a stall
  progress,        \* job id -> job.progress, a fraction of 100
  returnvalue,     \* job id -> job.returnvalue
  failedReason,    \* job id -> job.failedReason
  delayUntil,      \* job id -> due time of a delayed job
  finishedOn,      \* job id -> time of completion or final failure
  lock,            \* job id -> "none" | "held" | "orphan"
  timestamp,       \* job id -> time the job was added (job.timestamp)
  data,            \* job id -> job.data, the payload { userId, userMessage }
  now,             \* the clock (ms)
  proc,            \* worker -> job id -> the processor run of that job
  call,            \* the last awaited call of processMessage's loop turn
  poll,            \* the GET /status request in flight
  resp,            \* the last HTTP response of GET /status
  seen,            \* job id -> progress of the last {status, progress} answer
  post             \* the last POST /chat request and its HTTP response

jobVars == <<nextId, state, wait, delayed, attemptsMade, attemptsStarted,
             stalledCounter, progress, returnvalue, failedReason, delayUntil,
             finishedOn, lock, timestamp, data>>
workerVars == <<proc, call>>
pollVars == <<poll, resp, seen>>
postVars == <<post>>
vars == <<jobVars, now, workerVars, pollVars, postVars>>

\* the ids the queue's records range over
Ids == DOMAIN state

(***************************************************************************)
(* Values                                                                  *)
(***************************************************************************)
\* job.progress is ((i + 1) / messages.length) * 100: kept as the fraction
\* num/den of 100 so that 1/3 and 2/3 are exact; 0 is bullmq's initial value
Fraction(n, d) == [num |-> n, den |-> d]
ZeroProgress == Fraction(0, 1)
ProgLeq(p, q) == p.num * q.den <= q.num * p.den

\* job.returnvalue: null until the processor returned { messages: [...] }
NoValue == [has |-> FALSE, messages |-> <<>>]
Value(ms) == [has |-> TRUE, messages |-> ms]

\* job.failedReason: undefined until an attempt threw
NoReason == "none"

\* job.data before the job exists
NoData == [userId |-> "none", userMessage |-> "none"]

\* the last POST /chat request and the response it got; none yet
NoRequest == [userId |-> "absent", message |-> "absent", keys |-> FALSE,
              files |-> FALSE, addOk |-> FALSE]
NoPost == [request |-> NoRequest, code |-> 0, kind |-> "none", jobId |-> 0,
           userId |-> "none"]

\* a processor run: pc is its position in the processor, n is
\* messages.length, i the loop index, acc processedMessages, and stage the
\* await of the loop turn the run is suspended at
Idle == [pc |-> "idle", n |-> 0, i |-> 0, acc |-> <<>>, stage |-> "none"]

\* no awaited call of a loop turn has settled yet
NoCall == [worker |-> 0, job |-> 0, attempt |-> 0, i |-> 0,
           stage |-> "none", ok |-> TRUE]

NoPoll == [pc |-> "idle", id |-> 0, progress |-> ZeroProgress,
           returnvalue |-> NoValue, failedReason |-> NoReason]
NoResp == [code |-> 0, id |-> 0, status |-> "none", hasProgress |-> FALSE,
           progress |-> ZeroProgress, hasResult |-> FALSE, result |-> NoValue,
           hasError |-> FALSE, error |-> NoReason]

InitWith(ids) ==
  /\ nextId = 1
  /\ state = [j \in ids |-> "none"]
  /\ wait = <<>>
  /\ delayed = <<>>
  /\ attemptsMade = [j \in ids |-> 0]
  /\ attemptsStarted = [j \in ids |-> 0]
  /\ stalledCounter = [j \in ids |-> 0]
  /\ progress = [j \in ids |-> ZeroProgress]
  /\ returnvalue = [j \in ids |-> NoValue]
  /\ failedReason = [j \in ids |-> NoReason]
  /\ delayUntil = [j \in ids |-> 0]
  /\ finishedOn = [j \in ids |-> 0]
  /\ lock = [j \in ids |-> "none"]
  /\ timestamp = [j \in ids |-> 0]
  /\ data = [j \in ids |-> NoData]
  /\ now = 0
  /\ proc = [w \in Workers |-> [j \in ids |-> Idle]]
  /\ call = NoCall
  /\ poll = NoPoll
  /\ resp = NoResp
  /\ seen = [j \in ids |-> ZeroProgress]
  /\ post = NoPost

Init == InitWith(JobIds)

(***************************************************************************)
(* POST /chat                                                              *)
(***************************************************************************)
\* what req.body.userId and req.body.message may hold
UserIds == {"absent", "", "u1"}
Messages == {"absent", "", "hi"}

\* JavaScript truthiness of a body field: undefined and '' are falsy
Truthy(v) == v \notin {"absent", ""}

\* a request and what it meets: the body, whether the API keys are set in
\* the environment, whether the demo audio files can be read, and whether
\* the queue's store accepts the add
Requests ==
  [userId : UserIds, message : Messages, keys : BOOLEAN, files : BOOLEAN,
   addOk : BOOLEAN]

\* const userId = req.body.userId || nanoid(10)
UserIdOf(r) == IF Truthy(r.userId) THEN r.userId ELSE "nanoid"

\* the payload of the job: { userId, userMessage }
PayloadNoUser(userId, userMessage) ==
  [userId |-> "none", userMessage |-> userMessage]
Payload(userId, userMessage) ==
  [userId |-> userId, userMessage |-> userMessage]

\* chatQueue.add('process-chat', { userId, userMessage }): bullmq gives the
\* job the next value of the queue's id counter and puts it at the tail of
\* the wait list
QueueAdd(j, userId, userMessage) ==
  /\ state' = [state EXCEPT ![j] = "waiting"]
  /\ wait' = Append(wait, j)
  /\ nextId' = nextId + 1
  /\ timestamp' = [timestamp EXCEPT ![j] = now]
  /\ data' = [data EXCEPT ![j] = Payload(userId, userMessage)]

\* the responses: res.send({ messages, userId }), res.status(500).send(..),
\* res.status(202).send({ status: 'processing', jobId, userId })
Canned(r) ==
  [request |-> r, code |-> 200, kind |-> "messages", jobId |-> 0,
   userId |-> UserIdOf(r)]
Failed500(r) ==
  [request |-> r, code |-> 500, kind |-> "error", jobId |-> 0,
   userId |-> "none"]
Accepted(r, j) ==
  [request |-> r, code |-> 202, kind |-> "processing", jobId |-> j,
   userId |-> UserIdOf(r)]

\* the branches that answer without the queue: no message, or no API keys
ChecksKeysOnly(r) == ~r.keys
AnswersCanned(r) == ~Truthy(r.message) \/ ~r.keys

\* the handler; at most `limit` jobs are added in one behaviour
PostChat(limit, r) ==
  IF AnswersCanned(r)
  THEN /\ post' = IF r.files THEN Canned(r) ELSE Failed500(r)
       /\ UNCHANGED <<jobVars, now, workerVars, pollVars>>
  ELSE IF ~r.addOk
  THEN /\ post' = Failed500(r)
       /\ UNCHANGED <<jobVars, now, workerVars, pollVars>>
  ELSE /\ nextId <= limit
       /\ QueueAdd(nextId, UserIdOf(r), r.message)
       /\ post' = Accepted(r, nextId)
       /\ UNCHANGED <<delayed, attemptsMade, attemptsStarted, stalledCounter,
                      progress, returnvalue, failedReason, delayUntil,
                      finishedOn, lock, now, workerVars, pollVars>>

\* a request with a user id and a message, keys set, store reachable
PlainRequests ==
  {r \in Requests : /\ r.userId = "u1" /\ r.message = "hi"
                    /\ r.keys /\ r.files /\ r.addOk}

(***************************************************************************)
(* The queue: what bullmq does for the Queue and Worker of the source      *)
(***************************************************************************)
Running(w) == {j \in Ids : proc[w][j].pc # "idle"}

RECURSIVE Pow2(_)
Pow2(k) == IF k <= 0 THEN 1 ELSE 2 * Pow2(k - 1)

\* backoff: { type: 'exponential', delay: 1000 }: 2^(attemptsMade-1) * delay
FlatBackoff(made) == BackoffDelay
Backoff(made) == Pow2(made - 1) * BackoffDelay

\* the due time of a job retried at time t after `made` attempts
DueByClock(t, made) == t + Backoff(made) + t
DueAfter(t, made) == t + Backoff(made)

\* attempts: 3: a failed attempt is retried while attemptsMade < attempts
RetryOnceMore(made) == made <= Attempts
ShouldRetry(made) == made < Attempts

\* the delayed jobs that are due, in the order of the delayed set
Due(t) == SelectSeq(delayed, LAMBDA j : delayUntil[j] <= t)
NotDue(t) == SelectSeq(delayed, LAMBDA j : delayUntil[j] > t)
InSeq(s) == {s[k] : k \in 1..Len(s)}

\* the delayed set is ordered by due time, then by time of insertion
InsertDelayed(s, j, due) ==
  SelectSeq(s, LAMBDA k : delayUntil[k] <= due) \o <<j>> \o
  SelectSeq(s, LAMBDA k : delayUntil[k] > due)

\* the retried job enters the delayed set
DropDelayed(j, due) == delayed
AddDelayed(j, due) == InsertDelayed(delayed, j, due)

\* a finished job is in no list a worker takes jobs from
WaitRequeued(j, kind) == IF kind = "failed" THEN Append(wait, j) ELSE wait
WaitAfterFinish(j, kind) == wait

\* removeOnComplete / removeOnFail: after job j entered the finished set
\* `kind` at time t, the records older than age seconds and the records
\* beyond the count most recent ones are deleted (count 0: no cap)
AnyRecord(kind, j) == {k \in Ids : state[k] \notin {"none", "removed"}}
Finished(kind, j) == {k \in Ids : state[k] = kind} \cup {j}
FinishTime(j, t, k) == IF k = j THEN t ELSE finishedOn[k]
Newer(j, t, a, b) ==
  \/ FinishTime(j, t, a) > FinishTime(j, t, b)
  \/ FinishTime(j, t, a) = FinishTime(j, t, b) /\ a > b
RemoveJobsByMaxAge(kind, j, t, age) ==
  {k \in Finished(kind, j) : FinishTime(j, t, k) <= t - age * 1000}
NoCountCap(kind, j, t, count) == {}
RemoveJobsByMaxCount(kind, j, t, count) ==
  IF count = 0 THEN {}
  ELSE {k \in Finished(kind, j) :
          Cardinality({a \in Finished(kind, j) : Newer(j, t, a, k)}) >= count}
Removed(kind, j, t) ==
  IF kind = "completed"
  THEN RemoveJobsByMaxAge(kind, j, t, RemoveOnCompleteAge)
         \cup RemoveJobsByMaxCount(kind, j, t, RemoveOnCompleteCount)
  ELSE RemoveJobsByMaxAge(kind, j, t, RemoveOnFailAge)

\* moveToFinished: job j of worker w enters the finished set `kind`
MoveToFinished(w, j, kind, value, reason, made) ==
  \E gone \in {Removed(kind, j, now)} :
  /\ state' = [k \in Ids |->
                 IF k \in gone THEN "removed"
                 ELSE IF k = j THEN kind ELSE state[k]]
  /\ returnvalue' = [k \in Ids |->
                 IF k \in gone THEN NoValue
                 ELSE IF k = j THEN value ELSE returnvalue[k]]
  /\ failedReason' = [k \in Ids |->
                 IF k \in gone THEN NoReason
                 ELSE IF k = j THEN reason ELSE failedReason[k]]
  /\ attemptsMade' = [k \in Ids |->
                 IF k \in gone THEN 0
                 ELSE IF k = j THEN made ELSE attemptsMade[k]]
  /\ finishedOn' = [k \in Ids |->
                 IF k \in gone THEN 0
                 ELSE IF k = j THEN now ELSE finishedOn[k]]
  /\ attemptsStarted' = [k \in Ids |->
                 IF k \in gone THEN 0 ELSE attemptsStarted[k]]
  /\ stalledCounter' = [k \in Ids |->
                 IF k \in gone THEN 0 ELSE stalledCounter[k]]
  /\ progress' = [k \in Ids |->
                 IF k \in gone THEN ZeroProgress ELSE progress[k]]
  /\ lock' = [lock EXCEPT ![j] = "none"]
  /\ wait' = WaitAfterFinish(j, kind)
  /\ timestamp' = [k \in Ids |-> IF k \in gone THEN 0 ELSE timestamp[k]]
  /\ data' = [k \in Ids |-> IF k \in gone THEN NoData ELSE data[k]]
  /\ UNCHANGED <<nextId, delayed, delayUntil>>

\* a failed attempt that is retried: the job enters the delayed set, due
\* after the backoff of the attempts made so far
MoveToDelayed(j, reason, made) ==
  /\ state' = [state EXCEPT ![j] = "delayed"]
  /\ attemptsMade' = [attemptsMade EXCEPT ![j] = made]
  /\ failedReason' = [failedReason EXCEPT ![j] = reason]
  /\ delayUntil' = [delayUntil EXCEPT ![j] = DueAfter(now, made)]
  /\ delayed' = AddDelayed(j, DueAfter(now, made))
  /\ lock' = [lock EXCEPT ![j] = "none"]
  /\ UNCHANGED <<nextId, timestamp, data, wait, attemptsStarted,
                 stalledCounter, progress, returnvalue, finishedOn>>

\* the processor threw: the worker calls job.moveToFailed(err)
MoveToFailed(w, j, reason) ==
  /\ IF ShouldRetry(attemptsMade[j] + 1)
     THEN MoveToDelayed(j, reason, attemptsMade[j] + 1)
     ELSE MoveToFinished(w, j, "failed", returnvalue[j], reason,
                         attemptsMade[j] + 1)
  /\ proc' = [proc EXCEPT ![w][j] = Idle]
  /\ UNCHANGED <<now, pollVars, postVars>>

\* the next job a worker gets: the head of the wait list, after the due
\* delayed jobs were moved to its tail
NextJob(ws) == Head(ws)

\* the job moves from the wait list to the active list in one script
KeepsWaiting(ws, j) == ws
TakeFromWait(ws, j) == SelectSeq(ws, LAMBDA k : k # j)

\* concurrency: 2: the Worker asks for a job only while it runs fewer
AlwaysFree(running) == TRUE
HasFreeSlot(running) == running < Concurrency

\* moveToActive: a worker with a free slot takes the next job
Claim(w) ==
  LET ws == wait \o Due(now) IN
  /\ HasFreeSlot(Cardinality(Running(w)))
  /\ ws # <<>>
  /\ LET j == NextJob(ws) IN
     /\ state' = [k \in Ids |->
                    IF k = j THEN "active"
                    ELSE IF k \in InSeq(Due(now)) THEN "waiting"
                    ELSE state[k]]
     /\ wait' = TakeFromWait(ws, j)
     /\ delayed' = NotDue(now)
     /\ lock' = [lock EXCEPT ![j] = "held"]
     /\ attemptsStarted' = [attemptsStarted EXCEPT ![j] = @ + 1]
     /\ proc' = [proc EXCEPT ![w][j] =
                   [pc |-> "generate", n |-> 0, i |-> 0, acc |-> <<>>,
                    stage |-> "none"]]
  /\ UNCHANGED <<nextId, timestamp, data, attemptsMade, stalledCounter,
                 progress, returnvalue, failedReason, delayUntil, finishedOn,
                 now, call, pollVars, postVars>>

(***************************************************************************)
(* The processor of worker.js                                              *)
(***************************************************************************)
\* what openai.chat.completions.create and JSON.parse give the processor
Replies ==
  {[kind |-> k, n |-> 0] : k \in {"throws", "unparsable", "object"}}
    \cup {[kind |-> "list", n |-> k] : k \in 0..MaxSegments}

\* the awaits of one loop turn, in program order: the five of
\* processMessage, then (the message pushed) job.updateProgress
Stages == <<"tts", "ffmpeg", "rhubarb", "readAudio", "readJson", "progress">>
FirstStage == Stages[1]
LastStage == Stages[Len(Stages)]
StageNo(s) == CHOOSE k \in 1..Len(Stages) : Stages[k] = s

\* the processor's view of the reply: messages.length iterations
Generate(w, j, reply) ==
  /\ proc[w][j].pc = "generate"
  /\ IF reply.kind \in {"throws", "unparsable"}
     THEN MoveToFailed(w, j, IF reply.kind = "throws"
                             THEN "APIError" ELSE "SyntaxError")
     ELSE /\ proc' = [proc EXCEPT ![w][j] =
                        [pc |-> IF reply.n = 0 THEN "return" ELSE "segment",
                         n |-> reply.n, i |-> 0, acc |-> <<>>,
                         stage |-> IF reply.n = 0 THEN "none"
                                   ELSE FirstStage]]
          /\ UNCHANGED <<jobVars, now, pollVars, postVars>>
  /\ UNCHANGED call

\* ((i + 1) / messages.length) * 100
ProgressFromZero(i, n) == Fraction(i, n)
ProgressValue(i, n) == Fraction(i + 1, n)

\* one turn of the loop: await processMessage(userId, i, ...) resolves (ok)
\* or rejects; when it resolves the message is pushed and
\* job.updateProgress is called, then i++ and the loop test
Segment(w, j, ok) ==
  /\ proc[w][j].pc = "segment"
  /\ proc[w][j].stage = FirstStage
  /\ UNCHANGED call
  /\ IF ok
     THEN /\ progress' = [progress EXCEPT ![j] =
                            ProgressValue(proc[w][j].i, proc[w][j].n)]
          /\ proc' = [proc EXCEPT ![w][j] =
                        [pc |-> IF proc[w][j].i + 1 < proc[w][j].n
                                THEN "segment" ELSE "return",
                         n |-> proc[w][j].n,
                         i |-> proc[w][j].i + 1,
                         acc |-> Append(proc[w][j].acc, proc[w][j].i + 1),
                         stage |-> IF proc[w][j].i + 1 < proc[w][j].n
                                   THEN FirstStage ELSE "none"]]
          /\ UNCHANGED <<nextId, timestamp, data, state, wait, delayed,
                         attemptsMade, attemptsStarted, stalledCounter,
                         returnvalue, failedReason, delayUntil, finishedOn,
                         lock, now, pollVars, postVars>>
     ELSE MoveToFailed(w, j, "StageError")

\* const sessionId = nanoid(10) in the processMessage call for message i of
\* the k-th run of job j: a random string, taken to differ from the one of
\* every other call
SessionId(j, k, i) == <<j, k, i>>

\* ensureUserDir(userId): path.join(AUDIO_DIR, userId)
UserDir(userId) == <<"audios", userId>>

\* path.join(userDir, `message_${sessionId}_${messageIndex}`)
BasePath(userId, sessionId, messageIndex) ==
  <<UserDir(userId), sessionId, messageIndex>>

\* mp3Path, wavPath and jsonPath of the loop turn a run is in
Artifacts(w, j) ==
  IF proc[w][j].pc = "segment"
  THEN {<<BasePath(data[j].userId,
                   SessionId(j, attemptsStarted[j], proc[w][j].i),
                   proc[w][j].i), ext>> : ext \in {"mp3", "wav", "json"}}
  ELSE {}

\* the await a run is suspended at next, after one that resolved
SkipsTranscoding(s) ==
  IF s = "tts" THEN "rhubarb"
  ELSE IF s = LastStage THEN FirstStage ELSE Stages[StageNo(s) + 1]
NextStage(s) == IF s = LastStage THEN FirstStage ELSE Stages[StageNo(s) + 1]

\* an await of the loop turn resolves: the run goes on to the next await;
\* processMessage's return value is pushed before job.updateProgress is
\* called, and when that resolves the progress is stored, i++ and the loop
\* test follow
Resolve(w, j) ==
  IF proc[w][j].stage = LastStage
  THEN /\ progress' = [progress EXCEPT ![j] =
                         ProgressValue(proc[w][j].i, proc[w][j].n)]
       /\ proc' = [proc EXCEPT ![w][j] =
                     [pc |-> IF proc[w][j].i + 1 < proc[w][j].n
                             THEN "segment" ELSE "return",
                      n |-> proc[w][j].n,
                      i |-> proc[w][j].i + 1,
                      acc |-> proc[w][j].acc,
                      stage |-> IF proc[w][j].i + 1 < proc[w][j].n
                                THEN FirstStage ELSE "none"]]
       /\ UNCHANGED <<nextId, timestamp, data, state, wait, delayed,
                      attemptsMade, attemptsStarted, stalledCounter,
                      returnvalue, failedReason, delayUntil, finishedOn,
                      lock, now, pollVars, postVars>>
  ELSE /\ proc' = [proc EXCEPT ![w][j] =
                     [pc |-> "segment",
                      n |-> proc[w][j].n,
                      i |-> proc[w][j].i,
                      acc |-> IF NextStage(proc[w][j].stage) = LastStage
                              THEN Append(proc[w][j].acc, proc[w][j].i + 1)
                              ELSE proc[w][j].acc,
                      stage |-> NextStage(proc[w][j].stage)]]
       /\ UNCHANGED <<jobVars, now, pollVars, postVars>>

\* an await of the loop turn rejects: processMessage's catch logs and
\* rethrows, the processor's catch logs and rethrows, the worker fails the
\* attempt
Swallow(w, j) == Resolve(w, j)
Throw(w, j) == MoveToFailed(w, j, "StageError")

\* one await of a loop turn settles: voice.textToSpeech, ffmpeg, rhubarb,
\* audioFileToBase64, readJsonTranscript or job.updateProgress
Stage(w, j, ok) ==
  /\ proc[w][j].pc = "segment"
  /\ call' = [worker |-> w, job |-> j, attempt |-> attemptsStarted[j],
              i |-> proc[w][j].i, stage |-> proc[w][j].stage, ok |-> ok]
  /\ IF ok THEN Resolve(w, j) ELSE Throw(w, j)

\* return { messages: processedMessages }: the worker completes the job
Return(w, j) ==
  /\ proc[w][j].pc = "return"
  /\ MoveToFinished(w, j, "completed", Value(proc[w][j].acc),
                    failedReason[j], attemptsMade[j] + 1)
  /\ proc' = [proc EXCEPT ![w][j] = Idle]
  /\ UNCHANGED <<now, call, pollVars, postVars>>

(***************************************************************************)
(* Worker processes: termination, restart and stalled-job recovery         *)
(***************************************************************************)
\* the process is stopped and started again (a crash, a deploy, fly's
\* auto_stop_machines): its processor runs are gone with no completion
\* signal, and the locks of their jobs are no longer renewed
Crash(w) ==
  /\ proc' = [proc EXCEPT ![w] = [j \in Ids |-> Idle]]
  /\ lock' = [j \in Ids |-> IF j \in Running(w) THEN "orphan" ELSE lock[j]]
  /\ UNCHANGED <<nextId, timestamp, data, state, wait, delayed,
                 attemptsMade, attemptsStarted, stalledCounter, progress,
                 returnvalue, failedReason, delayUntil, finishedOn, now,
                 call, pollVars, postVars>>

\* a running worker's stalled-jobs check: an active job whose lock expired
\* goes back to the head of the wait list, or fails once it stalled more
\* than maxStalledCount times
NoneStalled == {}
Stalled == {j \in Ids : state[j] = "active" /\ lock[j] = "orphan"}
RECURSIVE SetToSeq(_)
SetToSeq(S) ==
  IF S = {} THEN <<>>
  ELSE LET m == CHOOSE x \in S : \A y \in S : x <= y
       IN <<m>> \o SetToSeq(S \ {m})
StalledCheck(w) ==
  LET back == {j \in Stalled : stalledCounter[j] + 1 <= MaxStalledCount}
      dead == Stalled \ back
      \* removeOnFail applies when a stalled job enters the failed set
      gone == IF dead = {} THEN {}
              ELSE {k \in Ids :
                      /\ state[k] = "failed"
                      /\ finishedOn[k] <= now - RemoveOnFailAge * 1000}
  IN
  /\ Stalled # {}
  /\ state' = [j \in Ids |->
                 IF j \in back THEN "waiting"
                 ELSE IF j \in dead THEN "failed"
                 ELSE IF j \in gone THEN "removed" ELSE state[j]]
  /\ wait' = SetToSeq(back) \o wait
  /\ stalledCounter' = [j \in Ids |->
                 IF j \in Stalled THEN stalledCounter[j] + 1
                 ELSE IF j \in gone THEN 0 ELSE stalledCounter[j]]
  /\ failedReason' = [j \in Ids |->
                 IF j \in dead THEN "stalled"
                 ELSE IF j \in gone THEN NoReason ELSE failedReason[j]]
  /\ finishedOn' = [j \in Ids |->
                 IF j \in dead THEN now
                 ELSE IF j \in gone THEN 0 ELSE finishedOn[j]]
  /\ lock' = [j \in Ids |-> IF j \in Stalled THEN "none" ELSE lock[j]]
  /\ attemptsMade' = [j \in Ids |->
                 IF j \in gone THEN 0 ELSE attemptsMade[j]]
  /\ attemptsStarted' = [j \in Ids |->
                 IF j \in gone THEN 0 ELSE attemptsStarted[j]]
  /\ progress' = [j \in Ids |->
                 IF j \in gone THEN ZeroProgress ELSE progress[j]]
  /\ returnvalue' = [j \in Ids |->
                 IF j \in gone THEN NoValue ELSE returnvalue[j]]
  /\ timestamp' = [j \in Ids |-> IF j \in gone THEN 0 ELSE timestamp[j]]
  /\ data' = [j \in Ids |-> IF j \in gone THEN NoData ELSE data[j]]
  /\ UNCHANGED <<nextId, delayed, delayUntil, now, workerVars, pollVars,
                 postVars>>

(***************************************************************************)
(* GET /status/:jobId                                                      *)
(***************************************************************************)
\* ids a caller may ask for: the job ids and one id no job ever had
PollIds == Ids \cup {0}

\* chatQueue.getJob(jobId): the job's hash, if there is one
HasJob(id) == id \in Ids /\ state[id] \notin {"none", "removed"}

\* job.getState(): the set that holds the id now, "unknown" if none does
GetState(id) == IF HasJob(id) THEN state[id] ELSE "unknown"

Response(code, id, status) ==
  [code |-> code, id |-> id, status |-> status, hasProgress |-> FALSE,
   progress |-> ZeroProgress, hasResult |-> FALSE, result |-> NoValue,
   hasError |-> FALSE, error |-> NoReason]

\* catch: res.status(500).send({ error: "Failed to get job status" })
HandlerError(id) ==
  [Response(500, id, "none") EXCEPT !.hasError = TRUE,
                                    !.error = "Failed to get job status"]

\* the name the handler puts in `status` for a job that is not finished
StatusName(st) == st

\* the answer of the handler for the job read by getJob, in state st
StatusResponse(job, st) ==
  IF st = "completed"
  THEN [Response(200, job.id, "completed") EXCEPT
          !.hasResult = TRUE, !.result = job.returnvalue]
  ELSE IF st = "failed"
  THEN [Response(500, job.id, "failed") EXCEPT
          !.hasError = TRUE, !.error = job.failedReason]
  ELSE [Response(200, job.id, StatusName(st)) EXCEPT
          !.hasProgress = TRUE, !.progress = job.progress]

\* const job = await chatQueue.getJob(jobId); if (!job) return 404
PollGet(id, ok) ==
  /\ poll.pc = "idle"
  /\ IF ~ok
     THEN /\ resp' = HandlerError(id)
          /\ UNCHANGED poll
     ELSE IF ~HasJob(id)
     THEN /\ resp' = [Response(404, id, "none") EXCEPT
                        !.hasError = TRUE, !.error = "Job not found"]
          /\ UNCHANGED poll
     ELSE /\ poll' = [pc |-> "getState", id |-> id,
                      progress |-> progress[id],
                      returnvalue |-> returnvalue[id],
                      failedReason |-> failedReason[id]]
          /\ UNCHANGED resp
  /\ UNCHANGED <<jobVars, now, workerVars, seen, postVars>>

\* the handler calls getJob, getState and res.send only: nothing is
\* written to the queue for the job it reads
RetriesFailed(id) ==
  /\ state' = [state EXCEPT ![id] = IF @ = "failed" THEN "waiting" ELSE @]
  /\ wait' = IF state[id] = "failed" THEN Append(wait, id) ELSE wait
  /\ UNCHANGED <<nextId, delayed, attemptsMade, attemptsStarted,
                 stalledCounter, progress, returnvalue, failedReason,
                 delayUntil, finishedOn, lock, timestamp, data>>
LeavesJob(id) == UNCHANGED jobVars

\* const state = await job.getState(); then the three answers
PollState(ok) ==
  /\ poll.pc = "getState"
  /\ poll' = NoPoll
  /\ resp' = IF ok THEN StatusResponse(poll, GetState(poll.id))
             ELSE HandlerError(poll.id)
  /\ seen' = IF ok /\ resp'.hasProgress
             THEN [seen EXCEPT ![poll.id] = resp'.progress]
             ELSE seen
  /\ LeavesJob(poll.id)
  /\ UNCHANGED <<now, workerVars, postVars>>

(***************************************************************************)
(* The clock                                                               *)
(***************************************************************************)
Tick ==
  /\ \/ now < MaxTime * BackoffDelay
     \/ \E j \in Ids : state[j] = "delayed" /\ delayUntil[j] > now
  /\ now' = now + BackoffDelay
  /\ UNCHANGED <<jobVars, workerVars, pollVars, postVars>>

\* the retention window of a finished record, and the first moment it is
\* older than that window
Window(k) ==
  IF state[k] = "completed" THEN RemoveOnCompleteAge ELSE RemoveOnFailAge
Expiry(k) == finishedOn[k] + Window(k) * 1000 + 1
Kept == {k \in Ids : state[k] \in {"completed", "failed"}}

\* time passes until the next finished record is older than its window
Expire ==
  /\ \E k \in Kept : Expiry(k) > now
  /\ now' = CHOOSE t \in {Expiry(k) : k \in Kept} :
              /\ t > now
              /\ \A k \in Kept : Expiry(k) > now => t <= Expiry(k)
  /\ UNCHANGED <<jobVars, workerVars, pollVars, postVars>>

\* the clock moves on by a millisecond past the latest finishing time
Millisecond ==
  /\ \E k \in Kept : finishedOn[k] = now
  /\ now' = now + 1
  /\ UNCHANGED <<jobVars, workerVars, pollVars, postVars>>

(***************************************************************************)
(* Specifications                                                          *)
(***************************************************************************)
\* the queue and the workers: at most `limit` jobs are added and the text
\* generator answers from R
QueueNext(limit, R) ==
  \/ \E r \in PlainRequests : PostChat(limit, r)
  \/ \E w \in Workers : Claim(w)
  \/ \E w \in Workers, j \in Ids, r \in R : Generate(w, j, r)
  \/ \E w \in Workers, j \in Ids, ok \in BOOLEAN : Segment(w, j, ok)
  \/ \E w \in Workers, j \in Ids : Return(w, j)
  \/ Tick

\* worker processes stopping, and the recovery of their jobs
CrashNext ==
  \/ \E w \in Workers : Crash(w)
  \/ \E w \in Workers : StalledCheck(w)

\* a caller polling
PollNext ==
  \/ \E id \in PollIds, ok \in BOOLEAN : PollGet(id, ok)
  \/ \E ok \in BOOLEAN : PollState(ok)

\* the text generator failing, or answering with at most one message
ShortReplies == {r \in Replies : r.kind \in {"throws", "list"} /\ r.n <= 1}

\* everything
Next == QueueNext(MaxJobs, Replies) \/ CrashNext \/ PollNext

\* the queue under load: MaxJobs jobs, workers stopping, nobody polling
WorkersNext == QueueNext(MaxJobs, ShortReplies) \/ CrashNext
SpecWorkers == Init /\ [][WorkersNext]_vars

\* one job from POST /chat to its end, with a caller polling it
StatusNext == QueueNext(1, Replies) \/ CrashNext \/ PollNext
SpecStatus == Init /\ [][StatusNext]_vars

Spec == Init /\ [][Next]_vars

\* the text generator failing, or answering with an empty list
EndReplies == {r \in Replies : r.kind \in {"throws", "list"} /\ r.n = 0}

\* the scheduling the Worker gives: a free slot takes the next job, every
\* await of a processor run settles, the clock advances, and a running
\* worker checks for stalled jobs
FairNext ==
  \/ \E r \in PlainRequests : PostChat(MaxJobs, r)
  \/ \E w \in Workers : Claim(w)
  \/ \E w \in Workers, j \in Ids, r \in EndReplies : Generate(w, j, r)
  \/ \E w \in Workers, j \in Ids : Return(w, j)
  \/ Tick
  \/ CrashNext
FairWorkers ==
  /\ WF_vars(Tick)
  /\ \A w \in Workers : WF_vars(Claim(w)) /\ WF_vars(StalledCheck(w))
  /\ \A w \in Workers, j \in JobIds :
        /\ WF_vars(\E r \in EndReplies : Generate(w, j, r))
        /\ WF_vars(Return(w, j))
SpecFair == Init /\ [][FairNext]_vars /\ FairWorkers

\* POST /chat with every kind of request, and one worker that completes the
\* jobs, over ChatJobs ids and with records outliving their window
ChatIds == 1..ChatJobs
ChatNext ==
  \/ \E r \in Requests : PostChat(ChatJobs, r)
  \/ Claim(1)
  \/ \E j \in Ids : Generate(1, j, [kind |-> "list", n |-> 0])
  \/ \E j \in Ids : Return(1, j)
  \/ Expire
SpecChat == InitWith(ChatIds) /\ [][ChatNext]_vars

\* retention: ChatJobs jobs, all added at the start, that complete or throw
\* at once, one worker, backoff and records outliving their window
RetentionNext ==
  \/ now = 0 /\ \E r \in PlainRequests : PostChat(ChatJobs, r)
  \/ Claim(1)
  \/ \E j \in Ids, r \in EndReplies : Generate(1, j, r)
  \/ \E j \in Ids : Return(1, j)
  \/ Tick
  \/ Expire
SpecRetention == InitWith(ChatIds) /\ [][RetentionNext]_vars

\* the same with the scheduling the Worker gives and time passing; nothing
\* obliges a caller to send a request
FairChat ==
  /\ WF_vars(Expire)
  /\ WF_vars(Claim(1))
  /\ \A j \in ChatIds :
        /\ WF_vars(Generate(1, j, [kind |-> "list", n |-> 0]))
        /\ WF_vars(Return(1, j))
SpecChatFair == SpecChat /\ FairChat

\* many jobs: CapJobs jobs, all added at the start, completed by one
\* worker, one at a time, each completion in a millisecond of its own
CapIds == 1..CapJobs
CapNext ==
  \/ now = 0 /\ \E r \in PlainRequests : PostChat(CapJobs, r)
  \/ Running(1) = {} /\ Claim(1)
  \/ \E j \in Ids : Generate(1, j, [kind |-> "list", n |-> 0])
  \/ \E j \in Ids : (\A k \in Kept : finishedOn[k] < now) /\ Return(1, j)
  \/ Millisecond
SpecCap == InitWith(CapIds) /\ [][CapNext]_vars

\* one job with every await of its loop turns a step of its own, workers
\* stopping, nobody polling
StagesNext ==
  \/ \E r \in PlainRequests : PostChat(1, r)
  \/ \E w \in Workers : Claim(w)
  \/ \E w \in Workers, j \in Ids, r \in Replies : Generate(w, j, r)
  \/ \E w \in Workers, j \in Ids, ok \in BOOLEAN : Stage(w, j, ok)
  \/ \E w \in Workers, j \in Ids : Return(w, j)
  \/ Tick
  \/ CrashNext
SpecStages == Init /\ [][StagesNext]_vars

\* the queue and the workers with no process stopping
SpecOrder == Init /\ [][QueueNext(MaxJobs, ShortReplies)]_vars

(***************************************************************************)
(* Properties                                                              *)
(***************************************************************************)
Holders(j) == {w \in Workers : proc[w][j].pc # "idle"}
Terminal == {"completed", "failed"}

\* C1: for every job id at most one processor run, over all worker
\* processes, is executing it, and only while the job is active under a
\* live lock: an active job is never claimed a second time before it is
\* completed, failed or requeued.
C1_SingleHolder ==
  \A j \in JobIds :
    /\ Cardinality(Holders(j)) <= 1
    /\ Holders(j) # {} => state[j] = "active" /\ lock[j] = "held"
    /\ Len(SelectSeq(wait, LAMBDA k : k = j)) <= 1
    /\ state[j] = "active" => j \notin InSeq(wait) /\ j \notin InSeq(delayed)

\* two jobs run at once on different workers, one of them claimed again
\* after its first worker stopped
C1_Witness ==
  /\ Holders(1) = {1} /\ Holders(2) = {2}
  /\ stalledCounter[1] = 1

\* C2: every job POST /chat enqueued eventually is completed or failed
\* (and may then be deleted), under the workers' fair scheduling.
C2_EventuallyFinished ==
  \A j \in JobIds :
    (state[j] = "waiting") ~> (state[j] \in Terminal \cup {"removed"})

\* both jobs finished, one after using all its attempts
C2_Witness ==
  /\ state[1] = "failed" /\ attemptsMade[1] = Attempts
  /\ state[2] = "completed"

\* C3: the progress values that successive GET /status answers carry for
\* one job never decrease.
C3_ProgressNonDecreasing ==
  [][\A j \in JobIds : ProgLeq(seen[j], seen'[j])]_vars

\* the errors of an external call: retryable by the spec's taxonomy
Transient == {"APIError", "StageError"}
Threw(j) ==
  /\ \E w \in Workers : proc[w][j].pc # "idle" /\ proc'[w][j].pc = "idle"
  /\ lock'[j] # "orphan"
  /\ state'[j] # "completed"
  /\ failedReason'[j] \in Transient

\* C4: when the processor of an active job throws a transient error, the
\* job goes to the delayed set with its attempt counted and a due time of
\* now plus delay * 2^(attempts - 1) if fewer than 3 attempts were made,
\* and otherwise becomes failed, in no list, and stays failed.
C4_RetryPolicy ==
  [][\A j \in JobIds :
       /\ Threw(j) =>
            /\ attemptsMade'[j] = attemptsMade[j] + 1
            /\ IF attemptsMade'[j] < Attempts
               THEN
                 /\ state'[j] = "delayed"
                 /\ delayUntil'[j] =
                      now + BackoffDelay * Pow2(attemptsMade'[j] - 1)
                 /\ j \in InSeq(delayed') /\ j \notin InSeq(wait')
               ELSE
                 /\ state'[j] = "failed"
                 /\ j \notin InSeq(delayed') /\ j \notin InSeq(wait')
       /\ state[j] = "failed" => state'[j] \in {"failed", "removed"}
    ]_vars

\* one job failed after its third attempt, the other waits out the backoff
\* of its second
C4_Witness ==
  \E j, k \in JobIds :
    /\ state[j] = "failed" /\ attemptsMade[j] = Attempts
    /\ failedReason[j] \in Transient
    /\ state[k] = "delayed" /\ attemptsMade[k] = 2
    /\ delayUntil[k] = finishedOn[j] + 2 * BackoffDelay

\* C5: a job whose reply could not be parsed is failed at once: it is never
\* requeued and was started once.
C5_ParseFailureIsFinal ==
  \A j \in JobIds :
    failedReason[j] = "SyntaxError" =>
      state[j] = "failed" /\ attemptsStarted[j] = 1

\* C6: a completed or failed job stays what it is, whatever runs (claims,
\* processor steps, retries, stalled checks, polls), until it is deleted.
C6_TerminalStays ==
  [][\A j \in JobIds :
       state[j] \in Terminal => state'[j] \in {state[j], "removed"}]_vars

\* a finished job was polled after it finished, and workers ran on
C6_Witness ==
  /\ state[1] = "failed"
  /\ resp.id = 1 /\ resp.status = "failed"
  /\ stalledCounter[1] = 1

\* C7: the count of claims of a job starts at 0, goes up by exactly one
\* with each claim and never otherwise, and never exceeds 3.
C7_AttemptCount ==
  /\ [](\A j \in JobIds :
          /\ attemptsStarted[j] <= Attempts
          /\ state[j] = "none" => attemptsStarted[j] = 0)
  /\ [][\A j \in JobIds :
          IF state[j] # "active" /\ state'[j] = "active"
          THEN attemptsStarted'[j] = attemptsStarted[j] + 1
          ELSE state'[j] # "removed" =>
                 attemptsStarted'[j] = attemptsStarted[j]]_vars

\* C8: a job never carries both a result and an error; the result is there
\* only when it is completed, the error only when it is failed.
C8_ResultXorError ==
  \A j \in JobIds :
    /\ ~(returnvalue[j].has /\ failedReason[j] # NoReason)
    /\ returnvalue[j].has => state[j] = "completed"
    /\ failedReason[j] # NoReason => state[j] = "failed"

\* the list the generator returned, processed in its order
InOrder(n) == [k \in 1..n |-> k]

\* C9: with N >= 1 messages, progress changes only when a message is done,
\* to (i/N)*100 for i = 1, 2, .. N in turn; a run that returns has processed
\* the N messages in the generator's order, and the completed job holds
\* exactly these N entries with progress 100.
C9_ResultAndProgress ==
  /\ [](\A w \in Workers, j \in JobIds :
          proc[w][j].pc \in {"segment", "return"} =>
            /\ proc[w][j].acc = InOrder(proc[w][j].i)
            /\ proc[w][j].i <= proc[w][j].n
            /\ proc[w][j].pc = "return" => proc[w][j].i = proc[w][j].n
            /\ proc[w][j].i >= 1 =>
                 progress[j] = [num |-> proc[w][j].i, den |-> proc[w][j].n])
  /\ [][\A w \in Workers, j \in JobIds :
          /\ (progress'[j] # progress[j] /\ state'[j] # "removed") =>
               \E v \in Workers :
                 /\ proc[v][j].pc = "segment"
                 /\ proc'[v][j].i = proc[v][j].i + 1
          /\ (proc[w][j].pc = "return" /\ state'[j] = "completed") =>
               /\ returnvalue'[j].has
               /\ returnvalue'[j].messages = InOrder(proc[w][j].n)
               /\ proc[w][j].n >= 1 => progress'[j] = [num |-> proc[w][j].n,
                                                        den |-> proc[w][j].n]
     ]_vars

\* a job completed with three entries in order and progress 100, after an
\* earlier attempt failed
C9_Witness ==
  /\ state[1] = "completed"
  /\ returnvalue[1].messages = <<1, 2, 3>>
  /\ progress[1] = [num |-> 3, den |-> 3]
  /\ attemptsMade[1] = 2

\* C10: every answer of GET /status has one of four shapes: 404; 200 with
\* status completed and the result; 500 with status failed and the error;
\* 200 with status queued or active and the progress (the answers the
\* handler computes from the queue; its catch branch aside).
C10_FourShapes ==
  (resp.code # 0 /\ resp # HandlerError(resp.id)) =>
    \/ resp.code = 404 /\ resp.status = "none"
    \/ resp.code = 200 /\ resp.status = "completed" /\ resp.hasResult
    \/ resp.code = 500 /\ resp.status = "failed" /\ resp.hasError
    \/ /\ resp.code = 200 /\ resp.status \in {"queued", "active"}
       /\ resp.hasProgress

\* C11: a GET /status request, whatever it answers (404, waiting or active,
\* completed, failed, handler error), changes no job's state, counters,
\* progress, result, error or payload, adds no job and moves none between
\* the lists; nor does it touch a processor run.
C11_PollReadOnly ==
  [][(poll' # poll \/ resp' # resp \/ seen' # seen) =>
       UNCHANGED <<jobVars, workerVars, now>>]_vars

\* a failed job was polled, answered 500 failed, and is still failed with
\* its three attempts
C11_Witness ==
  /\ resp.code = 500 /\ resp.status = "failed" /\ resp.id = 1
  /\ poll.pc = "idle"
  /\ state[1] = "failed" /\ attemptsMade[1] = Attempts
  /\ wait = <<>> /\ delayed = <<>>

\* C12: a POST /chat answered 202 has added exactly one job, under an id no
\* job ever had (deleted jobs included): it waits with no attempt made or
\* started, its payload is the request's message and the request's userId
\* (a generated one if the body has none), which is also the userId of the
\* answer; no other job is touched, and a job's payload never changes while
\* the job exists.
C12_AcceptedCreatesOneJob ==
  [][/\ (post' # post /\ post'.code = 202) =>
          LET j == post'.jobId
              u == post'.request.userId
          IN
          /\ j \in Ids /\ state[j] = "none"
          /\ state'[j] = "waiting"
          /\ attemptsMade'[j] = 0 /\ attemptsStarted'[j] = 0
          /\ data'[j].userMessage = post'.request.message
          /\ data'[j].userId = IF u \in {"absent", ""} THEN "nanoid" ELSE u
          /\ post'.userId = data'[j].userId
          /\ nextId' = nextId + 1 /\ wait' = Append(wait, j)
          /\ \A k \in Ids \ {j} : state'[k] = state[k] /\ data'[k] = data[k]
     /\ \A j \in Ids :
          (state[j] \notin {"none", "removed"} /\ state'[j] # "removed") =>
             data'[j] = data[j]
    ]_vars

\* the third job was accepted for a request without userId after the first
\* job's record was deleted
C12_Witness ==
  /\ post.code = 202 /\ post.jobId = 3 /\ post.request.userId = ""
  /\ state[3] = "waiting" /\ data[3] = Payload("nanoid", "hi")
  /\ state[1] = "removed"

\* C13: a POST /chat without a message, or received while the API keys are
\* not configured, changes nothing in the queue and is not answered 202
\* with a job id.
C13_NoMessageNoJob ==
  [][(/\ post' # post
      /\ \/ post'.request.message \in {"absent", ""}
         \/ ~post'.request.keys) =>
       /\ UNCHANGED jobVars
       /\ post'.code # 202 /\ post'.jobId = 0]_vars

\* with one job waiting, a request with an empty message got the canned
\* messages and the queue still holds that one job
C13_Witness ==
  /\ post.code = 200 /\ post.kind = "messages"
  /\ post.request.message = "" /\ post.request.keys
  /\ wait = <<1>> /\ nextId = 2

\* what the queue holds of job j: its fields and its place in the lists
Record(j) ==
  <<state[j], attemptsMade[j], attemptsStarted[j], stalledCounter[j],
    progress[j], returnvalue[j], failedReason[j], delayUntil[j], lock[j],
    timestamp[j], data[j],
    SelectSeq(wait, LAMBDA k : k = j), SelectSeq(delayed, LAMBDA k : k = j)>>
Live == {"waiting", "delayed", "active"}

\* C14: only completed and failed records are ever deleted; and a step that
\* deletes records leaves every waiting, delayed or active job as it was -
\* its fields and its place in the lists - except the job whose finishing
\* triggered the deletion, which becomes completed or failed.
C14_RetentionSparesLive ==
  [][/\ \A j \in Ids :
          (state[j] # "removed" /\ state'[j] = "removed") =>
             state[j] \in Terminal
     /\ (\E k \in Ids : state[k] # "removed" /\ state'[k] = "removed") =>
          \A j \in Ids :
            state[j] \in Live =>
              \/ Record(j)' = Record(j)
              \/ state[j] = "active" /\ state'[j] \in Terminal
    ]_vars

\* the first job's record was deleted when the second completed, an hour
\* later, while the third, as old as the first, is still active
C14_Witness ==
  /\ state[1] = "removed"
  /\ state[2] = "completed" /\ finishedOn[2] > RemoveOnCompleteAge * 1000
  /\ state[3] = "active" /\ timestamp[3] = 0
  /\ proc[1][3].pc = "generate"

\* C15: a completed record does not stay in the store for ever: once it is
\* older than the completed window it is deleted, also when no further job
\* is added or finished (and likewise a failed record and its window).
C15_ExpiredRecordsGo ==
  \A j \in ChatIds : (state[j] = "completed") ~> (state[j] = "removed")

Completed == {k \in Ids : state[k] = "completed"}

\* C16: the store never holds more than 100 completed records, and a
\* completed record that is deleted finished no later than every completed
\* record that is kept.
C16_CompletedCap ==
  /\ [](Cardinality(Completed) <= RemoveOnCompleteCount)
  /\ [][\A k \in Ids :
          (state[k] = "completed" /\ state'[k] = "removed") =>
             \A j \in Ids :
               state'[j] = "completed" => finishedOn'[j] >= finishedOn[k]]_vars

\* 101 jobs have completed: the 100 latest records are kept and the first,
\* the oldest, is deleted
C16_Witness ==
  /\ Cardinality(Completed) = RemoveOnCompleteCount
  /\ state[1] = "removed"
  /\ \A k \in Completed : finishedOn[k] >= 1

\* C17: a worker process never runs more than 2 jobs at once, and it starts
\* a job only while it runs fewer than 2: a third job waits until one of
\* the two runs has ended by completion or by a throw.
C17_AtMostTwoSlots ==
  /\ [](\A w \in Workers : Cardinality(Running(w)) <= Concurrency)
  /\ [][\A w \in Workers, j \in Ids :
          (proc[w][j].pc = "idle" /\ proc'[w][j].pc # "idle") =>
             Cardinality(Running(w)) < Concurrency]_vars

\* the worker ran jobs 1 and 2 with job 3 waiting, and took job 3 after job
\* 2 had completed
C17_Witness ==
  /\ Running(1) = {1, 3}
  /\ state[2] = "completed"
  /\ attemptsStarted[1] = 1 /\ attemptsStarted[3] = 1

\* the time from which a job may be claimed: when it was added, or the end
\* of the backoff of its last failed attempt
DueTime(j) == IF attemptsMade[j] = 0 THEN timestamp[j] ELSE delayUntil[j]
Eligible(j) ==
  \/ state[j] = "waiting"
  \/ state[j] = "delayed" /\ delayUntil[j] <= now
\* ids are given in the order of the adds
Before(a, b) ==
  \/ DueTime(a) < DueTime(b)
  \/ DueTime(a) = DueTime(b) /\ a < b

\* C18: the job a worker claims is, among the jobs that could be claimed at
\* that moment (waiting, or delayed with the due time passed), the one with
\* the earliest due time, and among those of equal due time the one added
\* first.
C18_FifoByDueTime ==
  [][\A j \in JobIds :
       (state[j] # "active" /\ state'[j] = "active") =>
          \A k \in JobIds \ {j} : Eligible(k) => Before(j, k)]_vars

\* a delayed job leaves the delayed set only once its due time has come
LeavesDelayedWhenDue ==
  \A j \in JobIds :
    (state[j] = "delayed" /\ state'[j] # "delayed") => delayUntil[j] <= now

DelayTable == <<1000, 2000, 4000>>

C22_InvalidReplyFails ==
  [][\A w \in Workers, j \in JobIds :
       (proc[w][j].pc = "return" /\ proc[w][j].n = 0) =>
          state'[j] # "completed"]_vars

\* C23: within one attempt the stages run strictly in sequence: a run
\* enters its first segment only from text generation; inside a segment
\* the awaits follow one another in the order synthesis, transcoding,
\* lip-sync, reading the audio, reading the transcript, progress update;
\* segment i + 1 starts only after segment i was read back, pushed and its
\* progress stored; and a job never has two runs, so never two stages, in
\* flight at once
C23_StagesInSequence ==
  /\ [](\A j \in JobIds : Cardinality(Holders(j)) <= 1)
  /\ [][\A w \in Workers, j \in JobIds :
          LET p == proc[w][j]
              q == proc'[w][j]
          IN  /\ (q.pc = "segment" /\ p.pc # "segment") =>
                    /\ p.pc = "generate"
                    /\ q.i = 0 /\ q.stage = "tts" /\ q.acc = <<>>
              /\ (p.pc = "segment" /\ q.pc = "segment" /\ q # p) =>
                    \/ /\ q.i = p.i
                       /\ StageNo(q.stage) = StageNo(p.stage) + 1
                    \/ /\ q.i = p.i + 1
                       /\ p.stage = "progress" /\ q.stage = "tts"
                       /\ Len(p.acc) = p.i + 1
                       /\ progress'[j] = ProgressValue(p.i, p.n)
              /\ (p.pc = "segment" /\ q.pc = "return") =>
                    /\ p.stage = "progress" /\ p.i + 1 = p.n
                    /\ Len(p.acc) = p.n]_vars
C23_Witness ==
  \E w \in Workers :
    /\ proc[w][1].pc = "segment" /\ proc[w][1].i = 1
    /\ proc[w][1].stage = "rhubarb"
    /\ call.stage = "ffmpeg" /\ call.i = 1 /\ call.ok

\* C24: a failing external call aborts the attempt and is never
\* suppressed: in the step in which text generation, or an await of a
\* segment, rejects, the run ends with its partial segments, no progress is
\* stored and no result returned, and the job takes the queue's fail path
\* (a counted attempt, a recorded reason, then a retry or terminal failure)
Aborted(w, j, reasons) ==
  /\ proc'[w][j] = Idle
  /\ progress'[j] = progress[j]
  /\ returnvalue'[j] = returnvalue[j]
  /\ state'[j] \in {"delayed", "failed"}
  /\ lock'[j] = "none"
  /\ attemptsMade'[j] = attemptsMade[j] + 1
  /\ failedReason'[j] \in reasons
C24_FailureAborts ==
  [][/\ (call' # call /\ ~call'.ok) =>
          /\ proc[call'.worker][call'.job].pc = "segment"
          /\ Aborted(call'.worker, call'.job, {"StageError"})
     /\ \A w \in Workers, j \in JobIds :
          (/\ proc[w][j].pc = "generate"
           /\ proc'[w][j].pc = "idle"
           /\ lock'[j] # "orphan") =>
              Aborted(w, j, {"APIError", "SyntaxError"})]_vars
C24_Witness ==
  /\ ~call.ok /\ call.i = 1 /\ call.stage = "rhubarb"
  /\ state[1] = "delayed" /\ failedReason[1] = "StageError"
  /\ progress[1] = Fraction(1, 3)
  /\ ~returnvalue[1].has
  /\ \A w \in Workers : proc[w][1] = Idle

\* C25: all segments of one attempt are written under one session
\* identifier: the session identifier of the segment a run is in is the
\* one of the run's first segment
SessionOf(w, j, i) == SessionId(j, attemptsStarted[j], i)
C25_OneSessionPerAttempt ==
  \A w \in Workers, j \in JobIds :
    proc[w][j].pc = "segment" =>
      SessionOf(w, j, proc[w][j].i) = SessionOf(w, j, 0)

\* the artifacts of a run are inside the owner's directory, and two runs in
\* progress at the same time write no path in common
ArtifactsApart ==
  \A w \in Workers, j \in JobIds :
    /\ \A a \in Artifacts(w, j) : a[1][1] = UserDir(data[j].userId)
    /\ \A v \in Workers, k \in JobIds :
          <<w, j>> # <<v, k>> => Artifacts(w, j) \cap Artifacts(v, k) = {}

\* C26: a retried job re-runs the whole pipeline: each run starts at the
\* text generator call with no segment processed and nothing kept from an
\* earlier run, and over its lifetime a job has at most Attempts (3) runs,
\* so at most 3 text generator calls
GeneratorCalls(j) == attemptsStarted[j]
StartsAfresh(j) ==
  \A w \in Workers :
    proc[w][j].pc = "generate" =>
      proc[w][j].i = 0 /\ proc[w][j].acc = <<>> /\ proc[w][j].n = 0
C26_WholePipelineAtMostThrice ==
  \A j \in JobIds : StartsAfresh(j) /\ GeneratorCalls(j) <= Attempts

\* what holds of the runs of a job: each starts afresh, and there are at
\* most Attempts + MaxStalledCount of them
RunsAfreshWithStalls ==
  \A j \in JobIds :
    StartsAfresh(j) /\ GeneratorCalls(j) <= Attempts + MaxStalledCount

\* C27: what a poller sees is stable once terminal: when an answer of
\* GET /status was completed or failed, the next answer for that id (a
\* handler error aside) is the same status with the same result or error,
\* or 404; and once the answer is 404 for a deleted record it stays 404
C27_TerminalAnswersStable ==
  [][(/\ resp' # resp
      /\ resp'.id = resp.id
      /\ resp' # HandlerError(resp.id)) =>
        /\ resp.status \in {"completed", "failed"} =>
              \/ resp'.code = 404
              \/ /\ resp'.status = resp.status
                 /\ resp'.result = resp.result
                 /\ resp'.error = resp.error
        /\ (/\ resp.code = 404
            /\ resp.id \in Ids
            /\ state[resp.id] = "removed") => resp'.code = 404]_vars
====
